---- MODULE Spec2Model ----
(***************************************************************************)
(* Heart Disease Risk Assessment page (03_ClassificationAlgorithms/app.py). *)
(*                                                                         *)
(* The page is a script that is executed from its first line to its last   *)
(* on every user interaction (a page run).  A run loads the three          *)
(* artifacts, renders the input widgets, and, when the run was caused by   *)
(* the analyze button, builds the feature vector, calls the scaler and the *)
(* classifier and renders the result.                                      *)
(*                                                                         *)
(* Representation.                                                         *)
(*   - a one-row DataFrame is a sequence of <<column name, value>> pairs,  *)
(*     in column order;                                                    *)
(*   - Oldpeak, a float with step 0.1, is counted in tenths;               *)
(*   - class probabilities of the classifier are vote counts out of        *)
(*     Neighbors, so prediction_proba = <<v0, v1>> stands for              *)
(*     (v0 / Neighbors, v1 / Neighbors);                                   *)
(*   - an optional value is <<>> (unset) or <<v>>.                         *)
(***************************************************************************)
EXTENDS Integers, Sequences, FiniteSets, TLC

VARIABLES
    disk,              \* the working directory: loadable files, content of columns.pkl
    runs,              \* number of page runs started in this process
    loads,             \* number of calls of load_models() in this process
    failures,          \* number of submissions that ended in "Prediction failed"
    pc,                \* position of the current page run in the script
    widgets,           \* widget values kept by the session between runs
    clicked,           \* the current run was caused by the analyze button
    model,             \* script global: the loaded classifier ("" before the load)
    scaler,            \* script global: the loaded scaler ("" before the load)
    expected_columns,  \* script global: the loaded column list
    input_df,          \* optional: the frame built in the try block
    scaled_input,      \* optional: the frame scaler.transform was given and accepted
    prediction,        \* optional: model.predict(...)[0]
    prediction_proba,  \* optional: model.predict_proba(...)[0]
    risk_pct,          \* optional: <<votes * 100>>, the percentage times Neighbors
    risk_box,          \* optional: <<label, percentage in tenths as rendered by .1f>>
    risk_factors,      \* the list of risk-factor flags
    calls,             \* library calls made in the current run
    page               \* the elements rendered by the current run, in order

vars == <<disk, runs, loads, failures, pc, widgets, clicked, model, scaler,
          expected_columns, input_df, scaled_input, prediction, prediction_proba,
          risk_pct, risk_box, risk_factors, calls, page>>

(***************************************************************************)
(* Bounds of the model.                                                    *)
(***************************************************************************)
MaxRuns == 4
MaxSchemaLen == 2
Neighbors == 3

(***************************************************************************)
(* Input widgets: the selectable domains of the select boxes, and sample   *)
(* values of the sliders and number inputs (the default, the thresholds    *)
(* of the risk-factor rules and a value beyond each threshold).            *)
(***************************************************************************)
SexDomain == {"M", "F"}
ChestPainDomain == {"ATA", "NAP", "TA", "ASY"}
ExerciseAnginaDomain == {"Y", "N"}
FastingBSDomain == {0, 1}
RestingECGDomain == {"Normal", "ST", "LVH"}
STSlopeDomain == {"Up", "Flat", "Down"}
AgeValues == {40, 65, 70}
RestingBPValues == {120, 140, 150}
CholesterolValues == {200, 240, 241}
MaxHRValues == {150, 100, 99}
OldpeakValues == {10, 25}

WidgetDomain ==
    [age |-> AgeValues, sex |-> SexDomain, chest_pain |-> ChestPainDomain,
     exercise_angina |-> ExerciseAnginaDomain, resting_bp |-> RestingBPValues,
     cholesterol |-> CholesterolValues, fasting_bs |-> FastingBSDomain,
     max_hr |-> MaxHRValues, resting_ecg |-> RestingECGDomain,
     oldpeak |-> OldpeakValues, st_slope |-> STSlopeDomain]

WidgetNames == DOMAIN WidgetDomain

\* The value every widget shows in the first run of a session.
WidgetDefaults ==
    [age |-> 40, sex |-> "M", chest_pain |-> "ATA", exercise_angina |-> "Y",
     resting_bp |-> 120, cholesterol |-> 200, fasting_bs |-> 0, max_hr |-> 150,
     resting_ecg |-> "Normal", oldpeak |-> 10, st_slope |-> "Up"]

(***************************************************************************)
(* Feature vector builder (the try block up to the call of the scaler).    *)
(***************************************************************************)
None == <<>>
Some(v) == <<v>>

NumericNames == {"Age", "RestingBP", "Cholesterol", "FastingBS", "MaxHR", "Oldpeak"}

\* f'{field}_{value}'
Key(field, value) == field \o "_" \o value

raw_input_Shifted(w) ==
    << <<"Age", w.age>>, <<"RestingBP", w.resting_bp>>,
       <<"Cholesterol", w.cholesterol>>, <<"FastingBS", w.fasting_bs>>,
       <<"MaxHR", w.resting_bp>>, <<"Oldpeak", w.oldpeak>>,
       <<Key("Sex", w.sex), 1>>, <<Key("ChestPainType", w.chest_pain), 1>>,
       <<Key("RestingECG", w.resting_ecg), 1>>,
       <<Key("ExerciseAngina", w.exercise_angina), 1>>,
       <<Key("ST_Slope", w.st_slope), 1>> >>

\* The dict literal, as the one-row frame pd.DataFrame([raw_input]) makes of it:
\* one column per key, in insertion order.
raw_input(w) ==
    << <<"Age", w.age>>, <<"RestingBP", w.resting_bp>>,
       <<"Cholesterol", w.cholesterol>>, <<"FastingBS", w.fasting_bs>>,
       <<"MaxHR", w.max_hr>>, <<"Oldpeak", w.oldpeak>>,
       <<Key("Sex", w.sex), 1>>, <<Key("ChestPainType", w.chest_pain), 1>>,
       <<Key("RestingECG", w.resting_ecg), 1>>,
       <<Key("ExerciseAngina", w.exercise_angina), 1>>,
       <<Key("ST_Slope", w.st_slope), 1>> >>

Range(seq) == {seq[i] : i \in DOMAIN seq}

\* input_df.columns
Columns(df) == {df[i][1] : i \in DOMAIN df}

RECURSIVE AddMissing_DefaultOne(_, _)
AddMissing_DefaultOne(df, cols) ==
    IF cols = <<>> THEN df
    ELSE AddMissing_DefaultOne(
             IF Head(cols) \in Columns(df) THEN df
             ELSE Append(df, <<Head(cols), 1>>),
             Tail(cols))

\* for col in expected_columns: if col not in input_df.columns: input_df[col] = 0
RECURSIVE AddMissing(_, _)
AddMissing(df, cols) ==
    IF cols = <<>> THEN df
    ELSE AddMissing(
             IF Head(cols) \in Columns(df) THEN df
             ELSE Append(df, <<Head(cols), 0>>),
             Tail(cols))

SelectColumns_NoReindex(df, cols) ==
    [raised |-> \E i \in DOMAIN cols : cols[i] \notin Columns(df),
     df |-> df]

SelectColumns_KeepRest(df, cols) ==
    [raised |-> \E i \in DOMAIN cols : cols[i] \notin Columns(df),
     df |-> IF \E i \in DOMAIN cols : cols[i] \notin Columns(df) THEN <<>>
            ELSE [i \in 1..Len(cols) |->
                     df[CHOOSE j \in DOMAIN df : df[j][1] = cols[i]]]
                 \o SelectSeq(df, LAMBDA c : \A i \in DOMAIN cols : cols[i] # c[1])]

\* input_df[expected_columns]: the columns named by the list, in the order of the
\* list; a name that is no column of the frame raises KeyError.
SelectColumns(df, cols) ==
    [raised |-> \E i \in DOMAIN cols : cols[i] \notin Columns(df),
     df |-> IF \E i \in DOMAIN cols : cols[i] \notin Columns(df) THEN <<>>
            ELSE [i \in 1..Len(cols) |->
                     df[CHOOSE j \in DOMAIN df : df[j][1] = cols[i]]]]

\* The alignment of a frame to the column list.
Align(df, cols) == SelectColumns(AddMissing(df, cols), cols)

\* The loaded column list: a list of names, or an object that is no list
\* (iterating over it raises TypeError).
ListOf(names) == [kind |-> "list", names |-> names]
NotAList == [kind |-> "other", names |-> <<>>]
Unset == [kind |-> "unset", names |-> <<>>]

\* The try block from raw_input to the reindexed input_df.
BuildVector(w, ec) ==
    IF ec.kind # "list" THEN [raised |-> TRUE, df |-> <<>>]
    ELSE Align(raw_input(w), ec.names)


(***************************************************************************)
(* Result rendering.                                                       *)
(***************************************************************************)
risk_pct_of_OtherClass(p, proba) ==
    IF p = 1
    THEN [raised |-> FALSE, value |-> proba[1] * 100]
    ELSE IF Len(proba) < 2 THEN [raised |-> TRUE, value |-> 0]
         ELSE [raised |-> FALSE, value |-> proba[2] * 100]

\* prediction_proba[1] * 100 if prediction == 1 else prediction_proba[0] * 100
\* (Python indexes from 0; a one-element array has no index 1: IndexError).
risk_pct_of(p, proba) ==
    IF p = 1
    THEN IF Len(proba) < 2 THEN [raised |-> TRUE, value |-> 0]
         ELSE [raised |-> FALSE, value |-> proba[2] * 100]
    ELSE [raised |-> FALSE, value |-> proba[1] * 100]

\* f"{x:.1f}" of x = num / den, in tenths: the nearest tenth, a tie to the even one.
Format1f(num, den) ==
    LET q == (num * 10) \div den
        r == (num * 10) % den
    IN  IF 2 * r > den THEN q + 1
        ELSE IF 2 * r < den THEN q
        ELSE IF q % 2 = 0 THEN q ELSE q + 1

AppendIf(cond, list, flag) == IF cond THEN Append(list, flag) ELSE list

RiskFactors_NotStrict(w) ==
    LET r1 == AppendIf(w.age >= 65, <<>>, "Age > 65")
        r2 == AppendIf(w.resting_bp >= 140, r1, "High BP")
        r3 == AppendIf(w.cholesterol >= 240, r2, "High Cholesterol")
        r4 == AppendIf(w.fasting_bs = 1, r3, "High Fasting Sugar")
        r5 == AppendIf(w.exercise_angina = "Y", r4, "Exercise Angina")
    IN  AppendIf(w.max_hr <= 100, r5, "Low Max HR")

\* risk_factors = []; if age > 65: risk_factors.append("Age > 65"); ...
RiskFactors(w) ==
    LET r1 == AppendIf(w.age > 65, <<>>, "Age > 65")
        r2 == AppendIf(w.resting_bp > 140, r1, "High BP")
        r3 == AppendIf(w.cholesterol > 240, r2, "High Cholesterol")
        r4 == AppendIf(w.fasting_bs = 1, r3, "High Fasting Sugar")
        r5 == AppendIf(w.exercise_angina = "Y", r4, "Exercise Angina")
    IN  AppendIf(w.max_hr < 100, r5, "Low Max HR")

\* for rf in risk_factors: st.write of the bullet line of rf
Bullets(list) == [i \in 1..Len(list) |-> "- " \o list[i]]

(***************************************************************************)
(* The page run.                                                           *)
(***************************************************************************)
ArtifactFiles == {"KNN_Heart.pkl", "scaler.pkl", "columns.pkl"}

NoCalls == [load_models |-> 0, transform |-> 0, predict |-> 0, predict_proba |-> 0]

Called(what) == calls' = [calls EXCEPT ![what] = @ + 1]

Render(elements) == page' = page \o elements

\* The script starts again from its first line: nothing of the previous run's
\* script variables or output is kept, only the widget values.  The page
\* configuration and the style sheet come first, then load_models().
StartRun(w, c) ==
    /\ runs < MaxRuns
    /\ pc \in {"done", "stopped"}
    /\ runs' = runs + 1
    /\ pc' = "load"
    /\ widgets' = w
    /\ clicked' = c
    /\ model' = ""
    /\ scaler' = ""
    /\ expected_columns' = Unset
    /\ input_df' = None
    /\ scaled_input' = None
    /\ prediction' = None
    /\ prediction_proba' = None
    /\ risk_pct' = None
    /\ risk_box' = None
    /\ risk_factors' = <<>>
    /\ calls' = NoCalls
    /\ page' = <<"style">>
    /\ UNCHANGED <<disk, loads, failures>>

\* The user asks for a rerun of the page.
Rerun == StartRun(widgets, FALSE)

\* The user changes the value of one rendered widget.
ChangeWidget ==
    /\ "inputs" \in Range(page)
    /\ \E n \in WidgetNames : \E v \in WidgetDomain[n] \ {widgets[n]} :
          StartRun([widgets EXCEPT ![n] = v], FALSE)

\* The user presses the rendered analyze button.
ClickAnalyze ==
    /\ "button" \in Range(page)
    /\ StartRun(widgets, TRUE)

RunVars == <<disk, runs, failures, widgets, clicked>>

LoadFail_Continue ==
    /\ pc = "load"
    /\ ~(ArtifactFiles \subseteq disk.files)
    /\ loads' = loads + 1
    /\ Called("load_models")
    /\ Render(<<"load_error">>)
    /\ pc' = "render"
    /\ UNCHANGED <<RunVars, model, scaler, expected_columns, input_df, scaled_input,
                   prediction, prediction_proba, risk_pct, risk_box, risk_factors>>

\* load_models(): one of the three joblib.load calls raises; st.error, st.stop.
LoadFail ==
    /\ pc = "load"
    /\ ~(ArtifactFiles \subseteq disk.files)
    /\ loads' = loads + 1
    /\ Called("load_models")
    /\ Render(<<"load_error">>)
    /\ pc' = "stopped"
    /\ UNCHANGED <<RunVars, model, scaler, expected_columns, input_df, scaled_input,
                   prediction, prediction_proba, risk_pct, risk_box, risk_factors>>

LoadOk_Swapped ==
    /\ pc = "load"
    /\ ArtifactFiles \subseteq disk.files
    /\ loads' = loads + 1
    /\ Called("load_models")
    /\ model' = "scaler.pkl"
    /\ scaler' = "KNN_Heart.pkl"
    /\ expected_columns' = disk.columns
    /\ pc' = "render"
    /\ UNCHANGED <<RunVars, input_df, scaled_input, prediction, prediction_proba,
                   risk_pct, risk_box, risk_factors, page>>

\* model, scaler, expected_columns = load_models()
LoadOk ==
    /\ pc = "load"
    /\ ArtifactFiles \subseteq disk.files
    /\ loads' = loads + 1
    /\ Called("load_models")
    /\ model' = "KNN_Heart.pkl"
    /\ scaler' = "scaler.pkl"
    /\ expected_columns' = disk.columns
    /\ pc' = "render"
    /\ UNCHANGED <<RunVars, input_df, scaled_input, prediction, prediction_proba,
                   risk_pct, risk_box, risk_factors, page>>

Artifacts == <<model, scaler, expected_columns>>

\* Header, about box, the eleven input widgets, the summary metrics.
RenderInputs ==
    /\ pc = "render"
    /\ Render(<<"header", "about", "inputs", "summary">>)
    /\ pc' = "button"
    /\ UNCHANGED <<RunVars, loads, Artifacts, input_df, scaled_input, prediction,
                   prediction_proba, risk_pct, risk_box, risk_factors, calls>>

\* if st.button(...): true only in the run the press caused.
Button ==
    /\ pc = "button"
    /\ Render(<<"button">>)
    /\ pc' = IF clicked THEN "build" ELSE "footer"
    /\ UNCHANGED <<RunVars, loads, Artifacts, input_df, scaled_input, prediction,
                   prediction_proba, risk_pct, risk_box, risk_factors, calls>>

\* raw_input, pd.DataFrame, the fill loop and the reindexing.
Build ==
    /\ pc = "build"
    /\ LET r == BuildVector(widgets, expected_columns)
       IN  IF r.raised
           THEN /\ pc' = "except"
                /\ UNCHANGED input_df
           ELSE /\ pc' = "transform"
                /\ input_df' = Some(r.df)
    /\ UNCHANGED <<RunVars, loads, Artifacts, scaled_input, prediction,
                   prediction_proba, risk_pct, risk_box, risk_factors, calls, page>>

\* scaled_input = scaler.transform(input_df)
TransformOk ==
    /\ pc = "transform"
    /\ Called("transform")
    /\ scaled_input' = input_df
    /\ pc' = "predict"
    /\ UNCHANGED <<RunVars, loads, Artifacts, input_df, prediction,
                   prediction_proba, risk_pct, risk_box, risk_factors, page>>

TransformRaises ==
    /\ pc = "transform"
    /\ Called("transform")
    /\ pc' = "except"
    /\ UNCHANGED <<RunVars, loads, Artifacts, input_df, scaled_input, prediction,
                   prediction_proba, risk_pct, risk_box, risk_factors, page>>

\* prediction = model.predict(scaled_input)[0]
PredictOk ==
    /\ pc = "predict"
    /\ Called("predict")
    /\ \E label \in {0, 1} : prediction' = Some(label)
    /\ pc' = "predict_proba"
    /\ UNCHANGED <<RunVars, loads, Artifacts, input_df, scaled_input,
                   prediction_proba, risk_pct, risk_box, risk_factors, page>>

PredictRaises ==
    /\ pc = "predict"
    /\ Called("predict")
    /\ pc' = "except"
    /\ UNCHANGED <<RunVars, loads, Artifacts, input_df, scaled_input, prediction,
                   prediction_proba, risk_pct, risk_box, risk_factors, page>>

\* The rows predict_proba can return: a distribution over the two classes, or,
\* from a classifier fitted on one class only, a single entry.
ProbaRows == {<<Neighbors - k, k>> : k \in 0..Neighbors} \cup {<<Neighbors>>}

\* prediction_proba = model.predict_proba(scaled_input)[0]
PredictProbaOk ==
    /\ pc = "predict_proba"
    /\ Called("predict_proba")
    /\ \E row \in ProbaRows : prediction_proba' = Some(row)
    /\ pc' = "result"
    /\ UNCHANGED <<RunVars, loads, Artifacts, input_df, scaled_input, prediction,
                   risk_pct, risk_box, risk_factors, page>>

PredictProbaRaises ==
    /\ pc = "predict_proba"
    /\ Called("predict_proba")
    /\ pc' = "except"
    /\ UNCHANGED <<RunVars, loads, Artifacts, input_df, scaled_input, prediction,
                   prediction_proba, risk_pct, risk_box, risk_factors, page>>

\* The divider, the results header and risk_pct.
ResultHeader ==
    /\ pc = "result"
    /\ Render(<<"divider", "results_header">>)
    /\ LET r == risk_pct_of(prediction[1], prediction_proba[1])
       IN  IF r.raised
           THEN /\ pc' = "except"
                /\ UNCHANGED risk_pct
           ELSE /\ pc' = "risk"
                /\ risk_pct' = Some(r.value)
    /\ UNCHANGED <<RunVars, loads, Artifacts, input_df, scaled_input, prediction,
                   prediction_proba, risk_box, risk_factors, calls>>

RenderRisk_Inverted ==
    /\ pc = "risk"
    /\ IF prediction[1] = 0
       THEN /\ risk_box' = Some(<<"HIGH", Format1f(risk_pct[1], Neighbors)>>)
            /\ Render(<<"risk_high", "recommended_actions">>)
       ELSE /\ risk_box' = Some(<<"LOW", Format1f(risk_pct[1], Neighbors)>>)
            /\ Render(<<"risk_low", "keep_healthy">>)
    /\ pc' = "factors"
    /\ UNCHANGED <<RunVars, loads, Artifacts, input_df, scaled_input, prediction,
                   prediction_proba, risk_pct, risk_factors, calls>>

\* if prediction == 1: the HIGH RISK box and the recommended actions;
\* else: the LOW RISK box and the info line.
RenderRisk ==
    /\ pc = "risk"
    /\ IF prediction[1] = 1
       THEN /\ risk_box' = Some(<<"HIGH", Format1f(risk_pct[1], Neighbors)>>)
            /\ Render(<<"risk_high", "recommended_actions">>)
       ELSE /\ risk_box' = Some(<<"LOW", Format1f(risk_pct[1], Neighbors)>>)
            /\ Render(<<"risk_low", "keep_healthy">>)
    /\ pc' = "factors"
    /\ UNCHANGED <<RunVars, loads, Artifacts, input_df, scaled_input, prediction,
                   prediction_proba, risk_pct, risk_factors, calls>>

\* The risk factors section.
RenderRiskFactors ==
    /\ pc = "factors"
    /\ risk_factors' = RiskFactors(widgets)
    /\ Render(<<"risk_factors_header">>
              \o (IF RiskFactors(widgets) # <<>>
                  THEN <<"risk_factors_warning">> \o Bullets(RiskFactors(widgets))
                  ELSE <<"no_red_flags">>))
    /\ pc' = "footer"
    /\ UNCHANGED <<RunVars, loads, Artifacts, input_df, scaled_input, prediction,
                   prediction_proba, risk_pct, risk_box, calls>>

Except_FallThrough ==
    /\ pc = "except"
    /\ Render(<<"prediction_failed">>)
    /\ failures' = failures + 1
    /\ pc' = "factors"
    /\ UNCHANGED <<disk, runs, widgets, clicked, loads, Artifacts, input_df,
                   scaled_input, prediction, prediction_proba, risk_pct, risk_box,
                   risk_factors, calls>>

Except_Retry ==
    /\ pc = "except"
    /\ Render(<<"prediction_failed">>)
    /\ failures' = failures + 1
    /\ pc' = IF calls.transform < 2 THEN "build" ELSE "footer"
    /\ UNCHANGED <<disk, runs, widgets, clicked, loads, Artifacts, input_df,
                   scaled_input, prediction, prediction_proba, risk_pct, risk_box,
                   risk_factors, calls>>

\* except Exception as e: st.error(f"Prediction failed: {e}")
Except ==
    /\ pc = "except"
    /\ Render(<<"prediction_failed">>)
    /\ failures' = failures + 1
    /\ pc' = "footer"
    /\ UNCHANGED <<disk, runs, widgets, clicked, loads, Artifacts, input_df,
                   scaled_input, prediction, prediction_proba, risk_pct, risk_box,
                   risk_factors, calls>>

\* The divider and the disclaimer; the run ends.
Footer ==
    /\ pc = "footer"
    /\ Render(<<"divider", "footer">>)
    /\ pc' = "done"
    /\ UNCHANGED <<RunVars, loads, Artifacts, input_df, scaled_input, prediction,
                   prediction_proba, risk_pct, risk_box, risk_factors, calls>>

(***************************************************************************)
(* The working directory the process is started in.  Its content is the   *)
(* same for every run of the process.                                      *)
(***************************************************************************)
\* The columns of pd.get_dummies over the training table, all categories kept.
FullSchema ==
    <<"Age", "RestingBP", "Cholesterol", "FastingBS", "MaxHR", "Oldpeak",
      "Sex_F", "Sex_M", "ChestPainType_ASY", "ChestPainType_ATA",
      "ChestPainType_NAP", "ChestPainType_TA", "RestingECG_LVH",
      "RestingECG_Normal", "RestingECG_ST", "ExerciseAngina_N",
      "ExerciseAngina_Y", "ST_Slope_Down", "ST_Slope_Flat", "ST_Slope_Up">>

\* The same with the first category of every field dropped.
DropFirstSchema ==
    <<"Age", "RestingBP", "Cholesterol", "FastingBS", "MaxHR", "Oldpeak",
      "Sex_M", "ChestPainType_ATA", "ChestPainType_NAP", "ChestPainType_TA",
      "RestingECG_Normal", "RestingECG_ST", "ExerciseAngina_Y",
      "ST_Slope_Flat", "ST_Slope_Up">>

DiskColumns == {ListOf(FullSchema), ListOf(DropFirstSchema), NotAList}

InitRun ==
    /\ runs = 1
    /\ loads = 0
    /\ failures = 0
    /\ pc = "load"
    /\ widgets = WidgetDefaults
    /\ clicked = FALSE
    /\ model = ""
    /\ scaler = ""
    /\ expected_columns = Unset
    /\ input_df = None
    /\ scaled_input = None
    /\ prediction = None
    /\ prediction_proba = None
    /\ risk_pct = None
    /\ risk_box = None
    /\ risk_factors = <<>>
    /\ calls = NoCalls
    /\ page = <<"style">>

\* The process starts its first page run; the session shows the widget defaults.
Init ==
    /\ disk \in [files : SUBSET ArtifactFiles, columns : DiskColumns]
    /\ InitRun

Next ==
    \/ Rerun \/ ChangeWidget \/ ClickAnalyze
    \/ LoadOk \/ LoadFail
    \/ RenderInputs \/ Button
    \/ Build
    \/ TransformOk \/ TransformRaises
    \/ PredictOk \/ PredictRaises
    \/ PredictProbaOk \/ PredictProbaRaises
    \/ ResultHeader \/ RenderRisk \/ RenderRiskFactors
    \/ Except \/ Footer

Spec == Init /\ [][Next]_vars


(***************************************************************************)
(* The feature vector builder alone: a submission at the start of its try  *)
(* block, for every selection of the categorical widgets and every column  *)
(* list of at most MaxSchemaLen names.                                     *)
(***************************************************************************)
SchemaNames ==
    {"Age", "MaxHR", "Sex_M", "ChestPainType_TA", "RestingECG_ST",
     "ExerciseAngina_Y", "ST_Slope_Flat", "Thal_7"}

SeqsUpTo(S, n) == UNION {[1..k -> S] : k \in 0..n}

Schemas ==
    {ListOf(names) : names \in SeqsUpTo(SchemaNames, MaxSchemaLen)
                               \cup {FullSchema, DropFirstSchema}}
    \cup {NotAList}

PageBeforeTry == <<"style", "header", "about", "inputs", "summary", "button">>

\* The state of a run caused by the button when it enters the try block.
AtTry(w, ec) ==
    /\ disk = [files |-> ArtifactFiles, columns |-> ec]
    /\ runs = 2
    /\ loads = 2
    /\ failures = 0
    /\ pc = "build"
    /\ widgets = w
    /\ clicked = TRUE
    /\ model = "KNN_Heart.pkl"
    /\ scaler = "scaler.pkl"
    /\ expected_columns = ec
    /\ input_df = None
    /\ scaled_input = None
    /\ prediction = None
    /\ prediction_proba = None
    /\ risk_pct = None
    /\ risk_box = None
    /\ risk_factors = <<>>
    /\ calls = [NoCalls EXCEPT !.load_models = 1]
    /\ page = PageBeforeTry

\* Every selection of the five select boxes, with two ages.
BuildObservations ==
    [age : {40, 70}, sex : SexDomain, chest_pain : ChestPainDomain,
     exercise_angina : ExerciseAnginaDomain, resting_bp : {120},
     cholesterol : {200}, fasting_bs : {0}, max_hr : {150},
     resting_ecg : RestingECGDomain, oldpeak : {10}, st_slope : STSlopeDomain]

InitBuild == \E w \in BuildObservations : \E ec \in Schemas : AtTry(w, ec)

NextBuild == Build

SpecBuild == InitBuild /\ [][NextBuild]_vars

(***************************************************************************)
(* One submission, from the start of its try block to the end of the run,  *)
(* for every sample value of the numeric widgets.                          *)
(***************************************************************************)
SubmitObservations ==
    [age : AgeValues, sex : {"M"}, chest_pain : {"ATA"},
     exercise_angina : ExerciseAnginaDomain, resting_bp : RestingBPValues,
     cholesterol : CholesterolValues, fasting_bs : FastingBSDomain,
     max_hr : MaxHRValues, resting_ecg : {"Normal"}, oldpeak : {10},
     st_slope : {"Up"}]

InitSubmit == \E w \in SubmitObservations : AtTry(w, ListOf(FullSchema))

NextSubmit ==
    \/ Build
    \/ TransformOk \/ TransformRaises
    \/ PredictOk \/ PredictRaises
    \/ PredictProbaOk \/ PredictProbaRaises
    \/ ResultHeader \/ RenderRisk \/ RenderRiskFactors
    \/ Except \/ Footer

SpecSubmit == InitSubmit /\ [][NextSubmit]_vars

(***************************************************************************)
(* Vocabulary of the properties.                                           *)
(***************************************************************************)
\* The widget behind every numeric column and behind every categorical field.
NumericWidget ==
    [Age |-> "age", RestingBP |-> "resting_bp", Cholesterol |-> "cholesterol",
     FastingBS |-> "fasting_bs", MaxHR |-> "max_hr", Oldpeak |-> "oldpeak"]

CategoricalWidget ==
    [Sex |-> "sex", ChestPainType |-> "chest_pain", RestingECG |-> "resting_ecg",
     ExerciseAngina |-> "exercise_angina", ST_Slope |-> "st_slope"]

CategoricalFields == DOMAIN CategoricalWidget

OneHotColumns(f) == {Key(f, v) : v \in WidgetDomain[CategoricalWidget[f]]}

SelectedKey(f) == Key(f, widgets[CategoricalWidget[f]])

\* The vector has been built and is the argument of scaler.transform.
Handed == pc = "transform" /\ input_df # None

Vector == input_df[1]

Schema == expected_columns.names

LabelElements == {"risk_high", "risk_low"}

AllFlags ==
    <<"Age > 65", "High BP", "High Cholesterol", "High Fasting Sugar",
      "Exercise Angina", "Low Max HR">>

FactorElements ==
    {"risk_factors_header", "risk_factors_warning", "no_red_flags"}
    \cup Range(Bullets(AllFlags))

Occurrences(seq, x) == Cardinality({i \in DOMAIN seq : seq[i] = x})

(***************************************************************************)
(* C1.  Whatever the selections and whatever the list of column names, the *)
(* builder hands a vector to scaler.transform, the vector has exactly as   *)
(* many entries as the list has names, and its i-th column is named by the *)
(* i-th name of the list.                                                  *)
(***************************************************************************)
C1_VectorMatchesSchema ==
    (pc # "build" /\ expected_columns.kind = "list") =>
        /\ Handed
        /\ Len(Vector) = Len(Schema)
        /\ \A i \in 1..Len(Schema) :
              /\ Vector[i][1] = Schema[i]
              /\ Vector[i][2] \in Int

C1_Witness ==
    /\ Handed
    /\ Len(Schema) = 2
    /\ Schema[1] = "Thal_7"
    /\ Schema[2] = "Age"
    /\ Vector = << <<"Thal_7", 0>>, <<"Age", 70>> >>

(***************************************************************************)
(* C2, as stated, read in its favour: for each of the five categorical     *)
(* fields of which the list names at least one one-hot column, exactly one *)
(* column of the field's one-hot columns has value 1 in the vector, the    *)
(* column of the selected value, and every other one-hot column of the     *)
(* list has value 0.                                                       *)
(***************************************************************************)
C2_ExactlyOneHotPerField ==
    Handed =>
        \A f \in CategoricalFields :
            (OneHotColumns(f) \cap Range(Schema) # {}) =>
                /\ Cardinality({i \in DOMAIN Vector :
                                   /\ Vector[i][1] \in OneHotColumns(f)
                                   /\ Vector[i][2] = 1}) = 1
                /\ \A i \in DOMAIN Vector :
                      Vector[i][1] \in OneHotColumns(f) =>
                          Vector[i][2] = IF Vector[i][1] = SelectedKey(f) THEN 1 ELSE 0

(***************************************************************************)
(* C2, amended.  For each categorical field, the entries of the field's    *)
(* one-hot columns that have value 1 are exactly the entries at the        *)
(* positions where the list names the selected value's column: one entry   *)
(* when the list names it once, none when the list does not name it.       *)
(* Every other column of the list that is not a numeric field has value 0. *)
(***************************************************************************)
C2_OneHotFollowsSchema ==
    Handed =>
        /\ \A f \in CategoricalFields :
              {i \in DOMAIN Vector :
                  Vector[i][1] \in OneHotColumns(f) /\ Vector[i][2] = 1}
              = {i \in DOMAIN Schema : Schema[i] = SelectedKey(f)}
        /\ \A i \in DOMAIN Vector :
              (/\ Vector[i][1] \notin NumericNames
               /\ \A f \in CategoricalFields : Vector[i][1] # SelectedKey(f))
              => Vector[i][2] = 0

C2_Witness ==
    /\ Handed
    /\ Schema = DropFirstSchema
    /\ widgets.sex = "F"
    /\ widgets.chest_pain = "TA"
    /\ \A i \in DOMAIN Vector : Vector[i][1] \in OneHotColumns("Sex") => Vector[i][2] = 0
    /\ \E i \in DOMAIN Vector : Vector[i] = <<"ChestPainType_TA", 1>>
    /\ \E i \in DOMAIN Vector : Vector[i] = <<"ChestPainType_ATA", 0>>

(***************************************************************************)
(* C3, as stated, for the lists that name at least one numeric field:      *)
(* every numeric field has its entry in the vector, under its own column   *)
(* name and with the raw input value; none is altered, defaulted to 0 or   *)
(* lost.                                                                   *)
(***************************************************************************)
C3_NumericFieldsKept ==
    (Handed /\ NumericNames \cap Range(Schema) # {}) =>
        \A n \in NumericNames :
            /\ \E i \in DOMAIN Vector : Vector[i][1] = n
            /\ \A i \in DOMAIN Vector :
                  Vector[i][1] = n => Vector[i][2] = widgets[NumericWidget[n]]

(***************************************************************************)
(* C3, amended.  For every numeric field the list names, every entry under *)
(* that name has the raw input value; a numeric field the list does not    *)
(* name has no entry in the vector.                                        *)
(***************************************************************************)
C3_NumericFieldsOfSchemaKept ==
    Handed =>
        \A n \in NumericNames :
            /\ (n \in Range(Schema)) <=> (\E i \in DOMAIN Vector : Vector[i][1] = n)
            /\ \A i \in DOMAIN Vector :
                  Vector[i][1] = n => Vector[i][2] = widgets[NumericWidget[n]]

C3_Witness ==
    /\ Handed
    /\ Schema = <<"MaxHR", "Age">>
    /\ Vector = << <<"MaxHR", 150>>, <<"Age", 70>> >>

(***************************************************************************)
(* C7.  When the list does not name the column synthesized for a selected  *)
(* value, the builder raises nothing and reports nothing, the vector       *)
(* handed to the scaler has no entry for that column, and every entry is   *)
(* what the raw input without that key gives: the raw value of a column    *)
(* of the raw input, 0 for any other column.                               *)
(***************************************************************************)
Without(d, k) == SelectSeq(d, LAMBDA c : c[1] # k)

ValueOf(d, name) ==
    IF \E j \in DOMAIN d : d[j][1] = name
    THEN d[CHOOSE j \in DOMAIN d : d[j][1] = name][2]
    ELSE 0

C7_UnknownKeyDropped ==
    (pc # "build" /\ expected_columns.kind = "list") =>
        \A f \in CategoricalFields :
            SelectedKey(f) \notin Range(Schema) =>
                /\ Handed
                /\ page = PageBeforeTry
                /\ SelectedKey(f) \notin Columns(Vector)
                /\ Vector = [i \in 1..Len(Schema) |->
                               <<Schema[i],
                                 ValueOf(Without(raw_input(widgets), SelectedKey(f)),
                                         Schema[i])>>]

C7_Witness ==
    /\ Handed
    /\ widgets.chest_pain = "ASY"
    /\ widgets.exercise_angina = "Y"
    /\ Schema = <<"ExerciseAngina_Y", "ChestPainType_TA">>
    /\ Vector = << <<"ExerciseAngina_Y", 1>>, <<"ChestPainType_TA", 0>> >>

(***************************************************************************)
(* C4.  Once the risk-factor section is rendered, the list holds exactly   *)
(* the flags whose rule fires, each once: "Age > 65" iff age > 65, "High   *)
(* BP" iff resting BP > 140, "High Cholesterol" iff cholesterol > 240,     *)
(* "High Fasting Sugar" iff FastingBS = 1, "Exercise Angina" iff the       *)
(* angina selection is "Y", "Low Max HR" iff max heart rate < 100; the     *)
(* rendered bullet lines are those of the list; age 70 and resting BP 150  *)
(* with no other rule firing give exactly "Age > 65", "High BP".  The      *)
(* statement reads the inputs only, not the prediction.                    *)
(***************************************************************************)
C4_RiskFactorsExact ==
    ("risk_factors_header" \in Range(page)) =>
        LET flags == Range(risk_factors)
            w == widgets
        IN  /\ flags \subseteq Range(AllFlags)
            /\ Len(risk_factors) = Cardinality(flags)
            /\ ("Age > 65" \in flags) <=> (w.age > 65)
            /\ ("High BP" \in flags) <=> (w.resting_bp > 140)
            /\ ("High Cholesterol" \in flags) <=> (w.cholesterol > 240)
            /\ ("High Fasting Sugar" \in flags) <=> (w.fasting_bs = 1)
            /\ ("Exercise Angina" \in flags) <=> (w.exercise_angina = "Y")
            /\ ("Low Max HR" \in flags) <=> (w.max_hr < 100)
            /\ \A b \in Range(Bullets(AllFlags)) :
                  Occurrences(page, b) = Occurrences(Bullets(risk_factors), b)
            /\ ("no_red_flags" \in Range(page)) <=> (flags = {})
            /\ (/\ w.age = 70 /\ w.resting_bp = 150 /\ w.cholesterol <= 240
                /\ w.fasting_bs = 0 /\ w.exercise_angina = "N" /\ w.max_hr >= 100)
               => risk_factors = <<"Age > 65", "High BP">>

C4_Witness ==
    /\ pc = "done"
    /\ widgets.age = 70
    /\ widgets.resting_bp = 150
    /\ widgets.cholesterol = 240
    /\ widgets.max_hr = 100
    /\ prediction = Some(0)
    /\ risk_factors = <<"Age > 65", "High BP">>

(***************************************************************************)
(* C5.  In a run in which one of the three artifacts does not load, once   *)
(* load_models has run the run is halted: the page shows the load error    *)
(* after the style sheet and nothing else (no widget, no button),          *)
(* load_models was called once,                                            *)
(* the globals are not assigned, no vector was built and neither the       *)
(* scaler nor the classifier was called.                                   *)
(***************************************************************************)
C5_LoadFailureHalts ==
    (pc # "load" /\ ~(ArtifactFiles \subseteq disk.files)) =>
        /\ pc = "stopped"
        /\ page = <<"style", "load_error">>
        /\ calls = [NoCalls EXCEPT !.load_models = 1]
        /\ Artifacts = <<"", "", Unset>>
        /\ input_df = None
        /\ scaled_input = None
        /\ prediction = None
        /\ prediction_proba = None

C5_Witness ==
    /\ pc = "stopped"
    /\ disk.files = {"KNN_Heart.pkl", "scaler.pkl"}
    /\ runs = 2
    /\ page = <<"style", "load_error">>

(***************************************************************************)
(* C6.  An exception of the alignment, of scaler.transform, of             *)
(* model.predict or of model.predict_proba is caught in the submission     *)
(* that raised it: one failure message is rendered, the footer follows it  *)
(* and the run ends with the widgets and the button on the page; no        *)
(* library call is made twice in a run; every submission enters its try    *)
(* block with nothing left of an earlier one, and a submission that does   *)
(* not raise renders the page its own inputs and prediction give, however  *)
(* many submissions failed before.                                         *)
(***************************************************************************)
SuccessPage ==
    PageBeforeTry \o <<"divider", "results_header">>
    \o (IF prediction = Some(1) THEN <<"risk_high", "recommended_actions">>
        ELSE <<"risk_low", "keep_healthy">>)
    \o <<"risk_factors_header">>
    \o (IF risk_factors # <<>>
        THEN <<"risk_factors_warning">> \o Bullets(risk_factors)
        ELSE <<"no_red_flags">>)
    \o <<"divider", "footer">>

C6_FailureCaughtPerSubmission ==
    /\ Occurrences(page, "prediction_failed") <= 1
    /\ calls.transform <= 1 /\ calls.predict <= 1 /\ calls.predict_proba <= 1
    /\ pc = "except" => clicked /\ "prediction_failed" \notin Range(page)
    /\ pc = "stopped" => "prediction_failed" \notin Range(page)
    /\ (pc = "done" /\ "prediction_failed" \in Range(page)) =>
          /\ clicked
          /\ page \in {PageBeforeTry \o mid \o <<"prediction_failed", "divider", "footer">> :
                          mid \in {<<>>, <<"divider", "results_header">>}}
    /\ pc = "build" =>
          /\ page = PageBeforeTry
          /\ input_df = None /\ scaled_input = None
          /\ prediction = None /\ prediction_proba = None
          /\ risk_pct = None /\ risk_box = None /\ risk_factors = <<>>
          /\ calls.transform = 0 /\ calls.predict = 0 /\ calls.predict_proba = 0
    /\ (pc = "done" /\ clicked /\ "prediction_failed" \notin Range(page)) =>
          page = SuccessPage

C6_Witness ==
    /\ failures >= 1
    /\ pc = "done"
    /\ clicked
    /\ "prediction_failed" \notin Range(page)
    /\ "risk_low" \in Range(page)

(***************************************************************************)
(* C8.  Whenever a risk box is rendered, its label is HIGH exactly when    *)
(* the predicted label is 1 and LOW exactly when it is 0, risk_pct is 100  *)
(* times the probability of the predicted class, and the percentage shown  *)
(* is risk_pct to the nearest tenth.                                       *)
(***************************************************************************)
C8_LabelAndPercentage ==
    risk_box # None =>
        LET L == prediction[1]
            votes == prediction_proba[1][L + 1]
            label == risk_box[1][1]
            shown == risk_box[1][2]
        IN  /\ L \in {0, 1}
            /\ (label = "HIGH") <=> (L = 1)
            /\ (label = "LOW") <=> (L = 0)
            /\ ("risk_high" \in Range(page)) <=> (L = 1)
            /\ ("risk_low" \in Range(page)) <=> (L = 0)
            /\ risk_pct = Some(100 * votes)
            /\ 2 * (shown * Neighbors - 1000 * votes) <= Neighbors
            /\ 2 * (1000 * votes - shown * Neighbors) <= Neighbors

C8_Witness ==
    /\ prediction = Some(0)
    /\ prediction_proba = Some(<<1, Neighbors - 1>>)
    /\ risk_box # None
    /\ risk_box[1][1] = "LOW"
    /\ risk_box[1][2] = Format1f(100, Neighbors)

(***************************************************************************)
(* C9, as stated.  The artifacts are loaded once, at process start: no     *)
(* analysis triggers another load, so in a run caused by the button the    *)
(* process has called load_models at most once.                            *)
(***************************************************************************)
C9_LoadedOnceAtProcessStart == clicked => loads <= 1

(***************************************************************************)
(* C9, amended.  Every page run calls load_models once, at its start, so   *)
(* the process has loaded as often as it has run the page; from the load   *)
(* to the end of the run the three globals hold what that load returned,   *)
(* and no step of the analysis changes them.                               *)
(***************************************************************************)
C9_LoadedOncePerRun ==
    /\ loads = IF pc = "load" THEN runs - 1 ELSE runs
    /\ calls.load_models = IF pc = "load" THEN 0 ELSE 1
    /\ pc \notin {"load", "stopped"} =>
          Artifacts = <<"KNN_Heart.pkl", "scaler.pkl", disk.columns>>

C9_Witness ==
    /\ pc = "done"
    /\ clicked
    /\ runs = 3
    /\ loads = 3
    /\ failures = 1
    /\ risk_box # None

(***************************************************************************)
(* C10.  On the page of any run, every element of the risk-factor section  *)
(* comes after a risk label of the same run; a run without a button press  *)
(* renders neither; a submission that shows the failure message shows no   *)
(* risk label and no element of the risk-factor section, and its flag list *)
(* is empty.                                                               *)
(***************************************************************************)
C10_FactorsOnlyAfterLabel ==
    /\ \A i \in DOMAIN page :
          page[i] \in FactorElements =>
              \E j \in 1..(i - 1) : page[j] \in LabelElements
    /\ ~clicked =>
          /\ Range(page) \cap (LabelElements \cup FactorElements) = {}
          /\ risk_box = None /\ risk_factors = <<>>
    /\ "prediction_failed" \in Range(page) =>
          /\ Range(page) \cap (LabelElements \cup FactorElements) = {}
          /\ risk_box = None /\ risk_factors = <<>>

C10_Witness ==
    /\ pc = "done"
    /\ widgets.age = 70
    /\ "results_header" \in Range(page)
    /\ "prediction_failed" \in Range(page)

====
